---- MODULE Spec2Model ----
(***************************************************************************)
(* A model of orca_vib_analysis.py: the Spectrum Extractor                 *)
(* (parse_orca_ir), the Report Merger (replace_vmard_ir), the Report       *)
(* Parser (parse_aligned_nma), the Aggregator (calc_counts_and_top) and    *)
(* the filter/export loop (prompt_filter, main).                           *)
(*                                                                         *)
(* Numbers.  A float read from a "[\d.]+" token is modelled by an integer  *)
(* count of thousandths (100.046 is 100046); BadNum stands for a token the *)
(* pattern accepts and float() rejects ("1.2.3", "."), on which the code   *)
(* raises ValueError.  The input sets hold no value whose third decimal is *)
(* 5 and no two frequencies exactly 0.05 apart, the two places where the   *)
(* binary expansion of the float, which the model does not carry, decides  *)
(* the outcome of "{:.2f}" and of "< 0.05".                                *)
(*                                                                         *)
(* Text.  A line of the NMA report is a record: its kind is decided by the *)
(* two regular expressions of the code, its fields are the captured        *)
(* groups, and canon says whether the text is letter for letter the one    *)
(* the Merger's f-string produces for these values.  Two lines are the     *)
(* same bytes iff the records are equal.  A file is the sequence of its    *)
(* lines and whether the last one is terminated by a newline.              *)
(***************************************************************************)
EXTENDS Integers, Sequences, FiniteSets, TLC

VARIABLES
    \* ---- file system and arguments of replace_vmard_ir
    fs_report,              \* content of the file at nma_path
    fs_backup,              \* content of nma_path + ".orig", or NoFile
    orca_modes,             \* the mapping handed to replace_vmard_ir
    backup,                 \* the backup argument
    \* ---- locals of replace_vmard_ir
    pc,                     \* position of the run
    lines,                  \* f.read().splitlines()
    pos,                    \* index in lines of the line the for loop is at
    out,
    replacements_made,
    remaining_orca_modes,
    warnings,               \* what the run printed to stderr
    \* ---- history of the run (not in the code)
    match_keys,             \* match_key of every line processed so far
    runs,                   \* runs of the Merger started on this path
    orig,                   \* content of the report before the first run
    prev,                   \* content of the report when the current run began
    \* ---- parse_aligned_nma
    modes,                  \* its return value
    \* ---- calc_counts_and_top
    rows,
    df,                     \* its return value
    \* ---- main, from line 387
    current_df,
    exported,               \* the frame handed to export_results, or NoFrame
    \* ---- history of the filter loop (not in the code)
    prior_df,               \* the frame handed to the latest prompt_filter
    last_step,              \* the latest answers to prompt_filter
    steps                   \* calls of prompt_filter that returned

tableVars == <<rows, df, current_df, exported, prior_df, last_step, steps>>

fileVars == <<fs_report, fs_backup, orca_modes, backup, lines, out,
              replacements_made, remaining_orca_modes, warnings, match_keys,
              runs, orig, prev>>

vars == <<fs_report, fs_backup, orca_modes, backup, pc, lines, pos, out,
          replacements_made, remaining_orca_modes, warnings, match_keys,
          runs, orig, prev, modes, rows, df, current_df, exported, prior_df,
          last_step, steps>>

-----------------------------------------------------------------------------
(* Bounds of the model *)

MaxLines == 2           \* lines of a report file
MaxRecs == 2            \* records of the Extractor's mapping
MaxRuns == 2            \* runs of the Merger on one path
MaxOrcaLines == 4       \* lines of an ORCA output file
MaxModes == 1           \* ModeRecords handed to the Aggregator
MaxContribs == 2        \* contributions of one ModeRecord
MaxRows == 3            \* rows of the table the filter loop starts from
MaxSteps == 2           \* filter steps of one run of the loop

(* Program constants *)

Tol == 50               \* 0.05, in thousandths

-----------------------------------------------------------------------------
(* Values *)

BadNum == -1
NoKey == -1             \* Python's None for match_key
NoFile == [ls |-> <<>>, nl |-> FALSE, exists |-> FALSE]

Abs(x) == IF x < 0 THEN -x ELSE x

ModeIdxs == {1, 2}
HdrFreqs == {100004, 100046}

(* lines of the NMA report *)
HdrLine(mode, freq, ir, canon) ==
    [kind |-> "hdr", mode |-> mode, freq |-> freq, ir |-> ir, canon |-> canon,
     ctype |-> "", atoms |-> "", pct |-> 0]
ContribLine(ctype, atoms, pct) ==
    [kind |-> "contrib", mode |-> 0, freq |-> 0, ir |-> 0, canon |-> FALSE,
     ctype |-> ctype, atoms |-> atoms, pct |-> pct]
OtherLine(kind) ==
    [kind |-> kind, mode |-> 0, freq |-> 0, ir |-> 0, canon |-> FALSE,
     ctype |-> "", atoms |-> "", pct |-> 0]
TextLine == OtherLine("text")       \* matches neither pattern, no leading sign
SignedLine == OtherLine("signed")   \* leading + or -, not a contribution
EmptyLine == OtherLine("empty")     \* the empty string

-----------------------------------------------------------------------------
(* Files: str.splitlines, "\n".join, iteration over an open file *)

FileOf(ls, nl) == [ls |-> ls, nl |-> nl, exists |-> TRUE]

\* f.read().splitlines(): every line, terminated or not, without its end
SplitLines(file) == file.ls

\* the file that f.write("\n".join(out)) leaves: no terminator after the
\* last element, so an empty last element is only the terminator of the
\* one before it
JoinLines(ls) ==
    IF ls = <<>> THEN FileOf(<<>>, FALSE)
    ELSE IF ls[Len(ls)] = EmptyLine
         THEN FileOf(SubSeq(ls, 1, Len(ls) - 1), Len(ls) > 1)
         ELSE FileOf(ls, FALSE)

-----------------------------------------------------------------------------
(* replace_vmard_ir *)

Within(rfreq, freq) == Abs(rfreq - freq) < Tol

\* (faulty variant) the nearest record within tolerance instead of the first
FindMatchNearest(rem, freq) ==
    LET hits == {k \in 1..Len(rem) : Within(rem[k].freq, freq)}
    IN IF hits = {} THEN 0
       ELSE CHOOSE k \in hits :
                \A h \in hits :
                    \/ Abs(rem[k].freq - freq) < Abs(rem[h].freq - freq)
                    \/ Abs(rem[k].freq - freq) = Abs(rem[h].freq - freq) /\ k <= h

\* the for loop over remaining_orca_modes.items(): the position of the first
\* record within tolerance, 0 when the loop ends without a break
FindMatch(rem, freq) ==
    LET hits == {k \in 1..Len(rem) : Within(rem[k].freq, freq)}
    IN IF hits = {} THEN 0 ELSE CHOOSE k \in hits : \A h \in hits : k <= h

\* (faulty variant) the matched record stays in the working set
DelAtNever(rem, k) == rem

\* del remaining_orca_modes[match_key]
DelAt(rem, k) == SubSeq(rem, 1, k - 1) \o SubSeq(rem, k + 1, Len(rem))

\* (faulty variant) the hundredths cut off instead of rounded
Fmt2Truncating(x) == (x \div 10) * 10

\* "{:.2f}": the nearest hundredth
Fmt2(x) == ((x + 5) \div 10) * 10

\* f"Mode {vm_mode}:  {freq:.2f} cm-1 (IR: {irv:.2f})"
NewLn(vm_mode, freq, irv) == HdrLine(vm_mode, Fmt2(freq), Fmt2(irv), TRUE)

\* out.append(ln): a line that is no header, or a header without a match
KeepLnCanonical(ln) ==      \* (faulty variant) an unmatched header is reformatted
    IF ln.kind = "hdr" THEN HdrLine(ln.mode, ln.freq, ln.ir, TRUE) ELSE ln
KeepLn(ln) == ln

\* (faulty variant) an existing backup is kept
CopyToBackupOnce(report, old) == IF old.exists THEN old ELSE report

\* shutil.copy(nma_path, nma_path + ".orig")
CopyToBackup(report, old) == report

\* the two warnings after the loop
ZeroWarning == [w |-> "none_updated", freqs |-> <<>>]
UnmatchedWarning(rem) ==
    [w |-> "not_matched", freqs |-> [k \in 1..Len(rem) |-> rem[k].freq]]
\* (faulty variant) two independent ifs
EndWarningsBoth(made, rem) ==
    (IF made = 0 THEN {ZeroWarning} ELSE {})
    \cup (IF Len(rem) > 0 THEN {UnmatchedWarning(rem)} ELSE {})

EndWarnings(made, rem) ==
    IF made = 0 THEN {ZeroWarning}
    ELSE IF Len(rem) > 0 THEN {UnmatchedWarning(rem)}
    ELSE {}

MergerStart ==
    /\ pc = "idle"
    /\ runs < MaxRuns
    /\ runs' = runs + 1
    /\ fs_backup' = IF backup THEN CopyToBackup(fs_report, fs_backup) ELSE fs_backup
    /\ prev' = fs_report
    /\ lines' = SplitLines(fs_report)
    /\ out' = <<>>
    /\ replacements_made' = 0
    /\ remaining_orca_modes' = orca_modes
    /\ match_keys' = <<>>
    /\ warnings' = {}
    /\ pos' = 1
    /\ pc' = "loop"
    /\ UNCHANGED <<fs_report, orca_modes, backup, orig, modes>>
    /\ UNCHANGED tableVars

\* one iteration of "for ln in lines"
MergerLine ==
    /\ pc = "loop"
    /\ pos <= Len(lines)
    /\ LET ln == lines[pos]
           k == FindMatch(remaining_orca_modes, ln.freq)
       IN IF ln.kind # "hdr"
          THEN /\ out' = Append(out, KeepLn(ln))
               /\ match_keys' = Append(match_keys, NoKey)
               /\ pos' = pos + 1
               /\ UNCHANGED <<pc, replacements_made, remaining_orca_modes>>
          ELSE IF ln.freq = BadNum
          THEN \* float(m.group(2)) raises ValueError: the run ends here
               /\ pc' = "failed"
               /\ UNCHANGED <<out, match_keys, pos, replacements_made,
                              remaining_orca_modes>>
          ELSE IF k # 0
          THEN /\ out' = Append(out, NewLn(ln.mode, ln.freq,
                                           remaining_orca_modes[k].ir))
               /\ match_keys' = Append(match_keys, remaining_orca_modes[k].idx)
               /\ replacements_made' = replacements_made + 1
               /\ remaining_orca_modes' = DelAt(remaining_orca_modes, k)
               /\ pos' = pos + 1
               /\ UNCHANGED pc
          ELSE /\ out' = Append(out, KeepLn(ln))
               /\ match_keys' = Append(match_keys, NoKey)
               /\ pos' = pos + 1
               /\ UNCHANGED <<pc, replacements_made, remaining_orca_modes>>
    /\ UNCHANGED <<fs_report, fs_backup, orca_modes, backup, lines, warnings,
                   runs, orig, prev, modes>>
    /\ UNCHANGED tableVars

\* after the loop: the warnings, the write, the return
MergerFinish ==
    /\ pc = "loop"
    /\ pos > Len(lines)
    /\ warnings' = EndWarnings(replacements_made, remaining_orca_modes)
    /\ fs_report' = JoinLines(out)
    /\ pc' = "merged"
    /\ UNCHANGED <<fs_backup, orca_modes, backup, lines, pos, out,
                   replacements_made, remaining_orca_modes, match_keys, runs,
                   orig, prev, modes>>
    /\ UNCHANGED tableVars

-----------------------------------------------------------------------------
(* parse_aligned_nma *)

NewMode(ln) == [Mode |-> ln.mode, Freq |-> ln.freq, IR |-> ln.ir, Contrib |-> <<>>]
NewContrib(ln) == [type |-> ln.ctype, atoms |-> ln.atoms, weight |-> ln.pct]

\* (faulty variant) a header whose index was seen before starts no record
ParseStepFirstOnly(ms, ln) ==
    IF ln.kind = "hdr"
    THEN IF \E k \in 1..Len(ms) : ms[k].Mode = ln.mode
         THEN ms ELSE Append(ms, NewMode(ln))
    ELSE IF ln.kind = "contrib" /\ ms # <<>>
    THEN [ms EXCEPT ![Len(ms)].Contrib = Append(@, NewContrib(ln))]
    ELSE ms

\* the body of "for ln in f" on one line
ParseStep(ms, ln) ==
    IF ln.kind = "hdr"
    THEN Append(ms, NewMode(ln))
    ELSE IF ln.kind = "contrib" /\ ms # <<>>
    THEN [ms EXCEPT ![Len(ms)].Contrib = Append(@, NewContrib(ln))]
    ELSE ms

RECURSIVE ParseLines(_, _)
ParseLines(ls, n) == IF n = 0 THEN <<>> ELSE ParseStep(ParseLines(ls, n - 1), ls[n])

\* float() raises ValueError: on a header's frequency or intensity, or on
\* the percentage of a contribution that follows a header
ParseRaises(ls) ==
    \E n \in 1..Len(ls) :
        \/ ls[n].kind = "hdr" /\ (ls[n].freq = BadNum \/ ls[n].ir = BadNum)
        \/ /\ ls[n].kind = "contrib" /\ ls[n].pct = BadNum
           /\ \E h \in 1..(n - 1) : ls[h].kind = "hdr"

ParseAlignedNma ==
    /\ pc = "merged"
    /\ LET ls == fs_report.ls
           ms == ParseLines(ls, Len(ls))
       IN IF ParseRaises(ls) \/ ms = <<>>
          THEN pc' = "failed" /\ modes' = <<>>
          ELSE pc' = "parsed" /\ modes' = ms
    /\ UNCHANGED <<fs_report, fs_backup, orca_modes, backup, lines, pos, out,
                   replacements_made, remaining_orca_modes, warnings,
                   match_keys, runs, orig, prev>>
    /\ UNCHANGED tableVars

\* the program is started again on the same files
RunAgain ==
    /\ pc \in {"merged", "parsed", "failed"}
    /\ runs < MaxRuns
    /\ pc' = "idle"
    /\ modes' = <<>>
    /\ UNCHANGED <<fs_report, fs_backup, orca_modes, backup, lines, pos, out,
                   replacements_made, remaining_orca_modes, warnings,
                   match_keys, runs, orig, prev>>
    /\ UNCHANGED tableVars

-----------------------------------------------------------------------------
(* Inputs *)

\* Python's None where a DataFrame is expected: no frame has such a row
NoFrame == <<[ix |-> "None"]>>
NoStep == [choice |-> "", input |-> <<>>, blank |-> TRUE]

\* the variables of the table and of the filter loop before either runs
TableIdle ==
    /\ rows = <<>>
    /\ df = NoFrame
    /\ current_df = NoFrame
    /\ exported = NoFrame
    /\ prior_df = NoFrame
    /\ last_step = NoStep
    /\ steps = 0

SeqsUpTo(S, n) == UNION {[1..k -> S] : k \in 0..n}

NmaLines ==
    {HdrLine(m, f, 0, FALSE) : m \in ModeIdxs, f \in HdrFreqs}
    \cup {HdrLine(1, BadNum, 0, FALSE), HdrLine(1, 100046, BadNum, FALSE)}
    \cup {ContribLine("BOND", "C1 H2", 500), TextLine, EmptyLine}

\* a file whose last line is not terminated does not end in an empty line
NmaFiles ==
    {FileOf(ls, nl) : ls \in SeqsUpTo(NmaLines, MaxLines), nl \in BOOLEAN}
    \ {f \in {FileOf(ls, FALSE) : ls \in SeqsUpTo(NmaLines, MaxLines)} :
          f.ls # <<>> /\ f.ls[Len(f.ls)] = EmptyLine}

OrcaRec(idx, freq, ir) == [idx |-> idx, freq |-> freq, ir |-> ir]
OrcaRecs ==
    {OrcaRec(1, 100010, 1234), OrcaRec(2, 100030, 20006),
     OrcaRec(3, 100072, 1234), OrcaRec(2, 100010, 20006)}

\* what parse_orca_ir returns: not empty, no key twice
OrcaMappings ==
    {m \in SeqsUpTo(OrcaRecs, MaxRecs) :
        /\ m # <<>>
        /\ \A i, j \in 1..Len(m) : i # j => m[i].idx # m[j].idx}

Init ==
    /\ fs_report \in NmaFiles
    /\ fs_backup = NoFile
    /\ orca_modes \in OrcaMappings
    /\ backup \in BOOLEAN
    /\ pc = "idle"
    /\ lines = <<>>
    /\ pos = 1
    /\ out = <<>>
    /\ replacements_made = 0
    /\ remaining_orca_modes = <<>>
    /\ warnings = {}
    /\ match_keys = <<>>
    /\ runs = 0
    /\ orig = fs_report
    /\ prev = fs_report
    /\ modes = <<>>
    /\ TableIdle

Next ==
    \/ MergerStart
    \/ MergerLine
    \/ MergerFinish
    \/ ParseAlignedNma
    \/ RunAgain

Spec == Init /\ [][Next]_vars

-----------------------------------------------------------------------------
(* parse_orca_ir *)

(* A line of the ORCA output is a record too.  Its kind says which of the   *)
(* tests of parse_orca_ir it passes: "label" starts, stripped, with         *)
(* IR SPECTRUM; "footer" contains the Maximum memory phrase; "sep" starts,  *)
(* stripped, with --- or **********; "blank" strips to nothing; "rec"       *)
(* matches pat; "text" passes none of them.                                 *)
OrcaLine(kind, idx, freq, ir) == [kind |-> kind, idx |-> idx, freq |-> freq, ir |-> ir]
RecLine(idx, freq, ir) == OrcaLine("rec", idx, freq, ir)
PlainLine(kind) == OrcaLine(kind, 0, 0, 0)

\* start: the position of the first label line, 0 for None
SectionStart(ls) ==
    LET labels == {i \in 1..Len(ls) : ls[i].kind = "label"}
    IN IF labels = {} THEN 0 ELSE CHOOSE i \in labels : \A j \in labels : i <= j

\* the first footer line at or after start, 0 for None
FooterAt(ls, start) ==
    LET foots == {j \in start..Len(ls) : ls[j].kind = "footer"}
    IN IF foots = {} THEN 0 ELSE CHOOSE j \in foots : \A h \in foots : j <= h

\* the fallback: the first line after start that is blank before a line that
\* is not, or is a separator; 0 when the loop finds none
FallbackAt(ls, start) ==
    LET cuts == {k \in (start + 1)..Len(ls) :
                    \/ /\ k < Len(ls)
                       /\ ls[k].kind = "blank"
                       /\ ls[k + 1].kind # "blank"
                    \/ ls[k].kind = "sep"}
    IN IF cuts = {} THEN 0 ELSE CHOOSE k \in cuts : \A h \in cuts : k <= h

\* the position of the last line of lines[start:end]
WindowLast(ls, start) ==
    IF FooterAt(ls, start) # 0 THEN FooterAt(ls, start) - 1
    ELSE IF FallbackAt(ls, start) # 0 THEN FallbackAt(ls, start) - 1
    ELSE Len(ls)

NoEndWarning == [w |-> "no_end_marker", freqs |-> <<>>]
StartWarnings(ls, start) ==
    IF FooterAt(ls, start) = 0 /\ FallbackAt(ls, start) = 0
    THEN {NoEndWarning} ELSE {}

\* (faulty variant) a key that is present keeps its first value
DictSetDefault(d, idx, freq, ir) ==
    IF \E k \in 1..Len(d) : d[k].idx = idx
    THEN d ELSE Append(d, OrcaRec(idx, freq, ir))

\* orca[idx] = {...}: a present key keeps its place and takes the new value
DictSet(d, idx, freq, ir) ==
    IF \E k \in 1..Len(d) : d[k].idx = idx
    THEN [k \in 1..Len(d) |-> IF d[k].idx = idx THEN OrcaRec(idx, freq, ir) ELSE d[k]]
    ELSE Append(d, OrcaRec(idx, freq, ir))

\* lines 23-43: the bounds of the section
ExtractStart ==
    /\ pc = "extract"
    /\ LET start == SectionStart(lines)
       IN IF start = 0
          THEN /\ pc' = "failed"          \* ValueError: section not found
               /\ UNCHANGED <<pos, warnings>>
          ELSE /\ pc' = "scan"
               /\ pos' = start
               /\ warnings' = StartWarnings(lines, start)
    /\ orca_modes' = <<>>
    /\ UNCHANGED <<fs_report, fs_backup, backup, lines, out, replacements_made,
                   remaining_orca_modes, match_keys, runs, orig, prev, modes>>
    /\ UNCHANGED tableVars

\* one iteration of "for ln in lines[start:end]"
ExtractLine ==
    /\ pc = "scan"
    /\ pos <= WindowLast(lines, SectionStart(lines))
    /\ LET ln == lines[pos]
       IN IF ln.kind # "rec"
          THEN /\ pos' = pos + 1
               /\ UNCHANGED <<pc, orca_modes>>
          ELSE IF ln.freq = BadNum \/ ln.ir = BadNum
          THEN /\ pc' = "failed"          \* ValueError from float()
               /\ UNCHANGED <<pos, orca_modes>>
          ELSE /\ orca_modes' = DictSet(orca_modes, ln.idx, ln.freq, ln.ir)
               /\ pos' = pos + 1
               /\ UNCHANGED pc
    /\ UNCHANGED <<fs_report, fs_backup, backup, lines, out, replacements_made,
                   remaining_orca_modes, warnings, match_keys, runs, orig,
                   prev, modes>>
    /\ UNCHANGED tableVars

\* lines 52-55
ExtractFinish ==
    /\ pc = "scan"
    /\ pos > WindowLast(lines, SectionStart(lines))
    /\ pc' = IF orca_modes = <<>> THEN "failed" ELSE "extracted"
    /\ UNCHANGED <<fs_report, fs_backup, orca_modes, backup, lines, pos, out,
                   replacements_made, remaining_orca_modes, warnings,
                   match_keys, runs, orig, prev, modes>>
    /\ UNCHANGED tableVars

OrcaLines ==
    {PlainLine(k) : k \in {"label", "footer", "sep", "blank", "text"}}
    \cup {RecLine(1, 100010, 1234), RecLine(1, 100030, 20006),
          RecLine(2, 100030, 20006), RecLine(2, BadNum, 1234)}

OrcaFiles == SeqsUpTo(OrcaLines, MaxOrcaLines)

InitExtract ==
    /\ lines \in OrcaFiles
    /\ pc = "extract"
    /\ orca_modes = <<>>
    /\ pos = 1
    /\ warnings = {}
    /\ fs_report = NoFile
    /\ fs_backup = NoFile
    /\ backup = TRUE
    /\ out = <<>>
    /\ replacements_made = 0
    /\ remaining_orca_modes = <<>>
    /\ match_keys = <<>>
    /\ runs = 0
    /\ orig = NoFile
    /\ prev = NoFile
    /\ modes = <<>>
    /\ TableIdle

NextExtract ==
    \/ ExtractStart
    \/ ExtractLine
    \/ ExtractFinish

SpecExtract == InitExtract /\ [][NextExtract]_vars

\* the positions of the well-formed lines inside the section window
WindowRecs ==
    {i \in SectionStart(lines)..WindowLast(lines, SectionStart(lines)) :
        lines[i].kind = "rec"}

\* C3 as amended: the mapping returned has one entry for every mode index
\* that a well-formed line of the window carries, holding the frequency and
\* intensity of the last such line; it has K entries when the K well-formed
\* lines carry K different indices, and fewer when an index is repeated.
C3_OneEntryPerIndex ==
    pc = "extracted" =>
        /\ Len(orca_modes) = Cardinality({lines[i].idx : i \in WindowRecs})
        /\ \A j, k \in 1..Len(orca_modes) :
               j # k => orca_modes[j].idx # orca_modes[k].idx
        /\ \A k \in 1..Len(orca_modes) :
               \E i \in WindowRecs :
                   /\ lines[i].idx = orca_modes[k].idx
                   /\ lines[i].freq = orca_modes[k].freq
                   /\ lines[i].ir = orca_modes[k].ir
                   /\ \A h \in WindowRecs : lines[h].idx = lines[i].idx => h <= i
        /\ (\A i, h \in WindowRecs : i # h => lines[i].idx # lines[h].idx)
               => Len(orca_modes) = Cardinality(WindowRecs)

\* C3 as stated: K well-formed lines give exactly K entries, one per line.
C3_OneEntryPerLine ==
    pc = "extracted" => Len(orca_modes) = Cardinality(WindowRecs)

\* two well-formed lines of the window with one index and different values,
\* and a well-formed line outside the window
C3_Witness ==
    /\ pc = "extracted"
    /\ Cardinality(WindowRecs) = 2
    /\ Len(orca_modes) = 1
    /\ \E i \in WindowRecs : lines[i].freq # orca_modes[1].freq
    /\ \E i \in 1..Len(lines) : lines[i].kind = "rec" /\ i \notin WindowRecs

-----------------------------------------------------------------------------
(* calc_counts_and_top *)

\* the type tokens of the model, and str.upper on them
TypeTokens == {"BOND", "bond", "Angle", "OUT", "torsion", "STRE"}

Upper(t) ==
    CASE t = "bond" -> "BOND"
      [] t = "Angle" -> "ANGLE"
      [] t = "torsion" -> "TORSION"
      [] OTHER -> t       \* BOND, OUT, STRE: upper case already

\* (faulty variant) only TORSION is folded
CountKeyTorsionOnly(t) == IF Upper(t) = "TORSION" THEN "TORSION" ELSE t

\* line 182: the key of cnt that a contribution of type t increments
CountKey(t) == IF Upper(t) = "TORSION" THEN "TORSION" ELSE Upper(t)

\* lines 180-183: cnt.get(name, 0) after the loop over m['Contrib']
Cnt(contribs, name) ==
    Cardinality({j \in 1..Len(contribs) : CountKey(contribs[j].type) = name})

\* sorted(..., key=weight, reverse=True): stable, so of two contributions of
\* one weight the one met first stays first
RECURSIVE SortedByWeight(_)
SortedByWeight(cs) ==
    IF cs = <<>> THEN <<>>
    ELSE LET best == CHOOSE j \in 1..Len(cs) :
                         /\ \A h \in 1..Len(cs) : cs[h].weight <= cs[j].weight
                         /\ \A h \in 1..(j - 1) : cs[h].weight < cs[j].weight
         IN <<cs[best]>> \o SortedByWeight(DelAt(cs, best))

\* [:topn]
FirstN(s, n) == SubSeq(s, 1, IF Len(s) < n THEN Len(s) ELSE n)

\* one element of topstr: the type as captured, the atoms joined by a
\* space, the weight with two decimals
TopEntry(c) == [type |-> c.type, atoms |-> c.atoms, weight |-> Fmt2(c.weight)]

TopN == 2       \* topn=2 at the call in main

TopStr(contribs) ==
    LET top == FirstN(SortedByWeight(contribs), TopN)
    IN [k \in 1..Len(top) |-> TopEntry(top[k])]

\* lines 189-198: the row of one mode; ix is the label the DataFrame
\* gives it (its position, from 0)
RowOf(m, ix) ==
    [ix |-> ix,
     Mode |-> m.Mode,
     Freq |-> Fmt2(m.Freq),
     IR |-> Fmt2(m.IR),
     BOND_Contribs |-> Cnt(m.Contrib, "BOND"),
     ANGLE_Contribs |-> Cnt(m.Contrib, "ANGLE"),
     OUT_Contribs |-> Cnt(m.Contrib, "OUT"),
     TORSION_Contribs |-> Cnt(m.Contrib, "TORSION"),
     Top_Contributions |-> TopStr(m.Contrib)]

CalcCountsAndTop(ms) == [k \in 1..Len(ms) |-> RowOf(ms[k], k - 1)]

\* one iteration of "for m in modes"
AggregateMode ==
    /\ pc = "aggregate"
    /\ pos <= Len(modes)
    /\ rows' = Append(rows, RowOf(modes[pos], pos - 1))
    /\ pos' = pos + 1
    /\ UNCHANGED <<pc, modes, df, current_df, exported, prior_df, last_step, steps>>
    /\ UNCHANGED fileVars

\* return pd.DataFrame(rows)
AggregateReturn ==
    /\ pc = "aggregate"
    /\ pos > Len(modes)
    /\ df' = rows
    /\ pc' = "aggregated"
    /\ UNCHANGED <<pos, modes, rows, current_df, exported, prior_df, last_step, steps>>
    /\ UNCHANGED fileVars

Contribution(type, atoms, weight) == [type |-> type, atoms |-> atoms, weight |-> weight]
Contribs ==
    {Contribution(t, "C1 H2", 500) : t \in TypeTokens}
    \cup {Contribution("BOND", "N3 C4", 300)}

\* what parse_aligned_nma returns: at least one record
ModeRecords ==
    {[Mode |-> 1, Freq |-> 100046, IR |-> 1234, Contrib |-> cs] :
        cs \in SeqsUpTo(Contribs, MaxContribs)}

AggModeLists == SeqsUpTo(ModeRecords, MaxModes) \ {<<>>}

FilesIdle ==
    /\ fs_report = NoFile
    /\ fs_backup = NoFile
    /\ orca_modes = <<>>
    /\ backup = TRUE
    /\ lines = <<>>
    /\ out = <<>>
    /\ replacements_made = 0
    /\ remaining_orca_modes = <<>>
    /\ warnings = {}
    /\ match_keys = <<>>
    /\ runs = 0
    /\ orig = NoFile
    /\ prev = NoFile

InitAggregate ==
    /\ modes \in AggModeLists
    /\ pc = "aggregate"
    /\ pos = 1
    /\ FilesIdle
    /\ TableIdle

NextAggregate ==
    \/ AggregateMode
    \/ AggregateReturn

SpecAggregate == InitAggregate /\ [][NextAggregate]_vars

\* the contributions of a mode whose type, upper-cased, is this name
CountUpper(m, name) ==
    Cardinality({j \in 1..Len(m.Contrib) : Upper(m.Contrib[j].type) = name})

\* the contributions of a mode whose type is this name, letter for letter
CountExact(m, name) ==
    Cardinality({j \in 1..Len(m.Contrib) : m.Contrib[j].type = name})

\* C7 as amended: every one of the four canonical counts of a ResultRow is
\* the number of contributions whose type token, upper-cased, is the name
\* of the bucket: BOND, ANGLE and OUT are matched without regard to case
\* just as TORSION is, and any other label leaves the four counts alone.
C7_CountsFoldCase ==
    pc = "aggregated" =>
        /\ Len(df) = Len(modes)
        /\ \A k \in 1..Len(modes) :
               /\ df[k].BOND_Contribs = CountUpper(modes[k], "BOND")
               /\ df[k].ANGLE_Contribs = CountUpper(modes[k], "ANGLE")
               /\ df[k].OUT_Contribs = CountUpper(modes[k], "OUT")
               /\ df[k].TORSION_Contribs = CountUpper(modes[k], "TORSION")

\* C7 as stated: BOND, ANGLE and OUT count the tokens equal to the name in
\* the same case, and TORSION the tokens equal to it in any case.
C7_CountsExactCase ==
    pc = "aggregated" =>
        \A k \in 1..Len(modes) :
            /\ df[k].BOND_Contribs = CountExact(modes[k], "BOND")
            /\ df[k].ANGLE_Contribs = CountExact(modes[k], "ANGLE")
            /\ df[k].OUT_Contribs = CountExact(modes[k], "OUT")
            /\ df[k].TORSION_Contribs = CountUpper(modes[k], "TORSION")

\* a mode with a lower-case bond and another label
C7_Witness ==
    /\ pc = "aggregated"
    /\ \E k \in 1..Len(modes) :
           /\ Len(modes[k].Contrib) = 2
           /\ modes[k].Contrib[1].type = "bond"
           /\ modes[k].Contrib[2].type = "STRE"
           /\ df[k].BOND_Contribs = 1
           /\ df[k].ANGLE_Contribs = 0 /\ df[k].OUT_Contribs = 0
           /\ df[k].TORSION_Contribs = 0

-----------------------------------------------------------------------------
(* prompt_filter and the loop of main *)

(* A DataFrame is the sequence of its rows, each with its label ix.  An    *)
(* answer to a prompt is a record: blank says the stripped answer is       *)
(* empty, hyphen that it contains "-", parts is what split('-') or         *)
(* split(',') gives, each part stripped: a group of atoms, or a number in  *)
(* thousandths, BadNum for a part float() rejects, BlankPart for an empty  *)
(* one.                                                                    *)
BlankPart == -2

Answer(choice, blank, hyphen, parts) ==
    [choice |-> choice, blank |-> blank, hyphen |-> hyphen, parts |-> parts]

\* str.contains(..., case=False) compares without regard to case
CaseFold(a) == IF a = "c1 h2" THEN "C1 H2" ELSE a

\* the row's Top_Contributions contains "(" + grp + ")"
HasGroup(row, grp) ==
    \E k \in 1..Len(row.Top_Contributions) :
        CaseFold(row.Top_Contributions[k].atoms) = CaseFold(grp)

\* line 214: the groups that are not blank
GroupsOf(ans) == SelectSeq(ans.parts, LAMBDA g : g # "")

\* lines 216-222.  mask starts with the labels 0 .. len(df)-1 and is or-ed
\* with a Series that has the labels of df.  Where df has a label that mask
\* lacks, the left operand of the first "|" is missing; pandas then gives
\* False or the right operand, depending on how it treats the missing
\* value, and from the second "|" on both operands have every label.  Both
\* outcomes are kept: the set of masks, each the set of labels it holds True.
Masks(frame, groups) ==
    LET hit(g) == {frame[k].ix : k \in {j \in 1..Len(frame) : HasGroup(frame[j], g)}}
        inMask == 0..(Len(frame) - 1)
        rest == UNION {hit(groups[n]) : n \in 2..Len(groups)}
    IN IF groups = <<>> THEN {{}}
       ELSE {hit(groups[1]) \cup rest, (hit(groups[1]) \cap inMask) \cup rest}

\* lines 208-229: the frames prompt_filter may return for choice 'a'
AtomsFilter(frame, ans) ==
    IF ans.blank THEN {frame}
    ELSE {IF mask = {} THEN frame
          ELSE SelectSeq(frame, LAMBDA r : r.ix \in mask) :
             mask \in Masks(frame, GroupsOf(ans))}

\* the ValueError of lines 240-242 and 248
FreqRaises(ans) ==
    IF ans.hyphen
    THEN \/ Len(ans.parts) # 2
         \/ \E n \in 1..Len(ans.parts) : ans.parts[n] \in {BadNum, BlankPart}
    ELSE \E n \in 1..Len(ans.parts) : ans.parts[n] = BadNum

\* (faulty variant) a malformed answer empties the table
FreqFilterStrict(frame, ans) ==
    IF ans.blank THEN frame
    ELSE IF FreqRaises(ans) THEN <<>>
    ELSE IF ans.hyphen
    THEN SelectSeq(frame, LAMBDA r : ans.parts[1] <= r.Freq /\ r.Freq <= ans.parts[2])
    ELSE SelectSeq(frame, LAMBDA r : \E n \in 1..Len(ans.parts) : ans.parts[n] = r.Freq)

\* lines 231-253: the frame prompt_filter returns for choice 'f'
FreqFilter(frame, ans) ==
    IF ans.blank THEN frame
    ELSE IF FreqRaises(ans) THEN frame
    ELSE IF ans.hyphen
    THEN SelectSeq(frame, LAMBDA r : ans.parts[1] <= r.Freq /\ r.Freq <= ans.parts[2])
    ELSE SelectSeq(frame, LAMBDA r : \E n \in 1..Len(ans.parts) : ans.parts[n] = r.Freq)

AtomsAnswers ==
    {Answer("a", TRUE, FALSE, <<>>)}
    \cup {Answer("a", FALSE, FALSE, ps) :
            ps \in {<<>>, <<"">>, <<"c1 h2">>, <<"N3 C4">>, <<"O5 H6">>,
                    <<"O5 H6", "N3 C4">>}}

FreqAnswers ==
    {Answer("f", TRUE, FALSE, <<>>)}
    \cup {Answer("f", FALSE, TRUE, ps) :
            ps \in {<<100000, 200000>>, <<150000, 150000>>, <<BadNum, 200000>>,
                    <<100000, BlankPart>>, <<100000, 150000, 200000>>}}
    \cup {Answer("f", FALSE, FALSE, ps) :
            ps \in {<<100050>>, <<150000, BlankPart, 205000>>, <<BadNum>>,
                    <<BlankPart>>}}

\* prompt_filter returned a frame: lines 396-402 of main
Filtered(result, ans) ==
    /\ prior_df' = current_df
    /\ current_df' = result
    /\ last_step' = ans
    /\ steps' = steps + 1
    /\ pc' = "continue"
    /\ UNCHANGED <<pos, modes, rows, df, exported>>
    /\ UNCHANGED fileVars

PromptAtoms ==
    /\ pc = "prompt"
    /\ steps < MaxSteps
    /\ \E ans \in AtomsAnswers : \E result \in AtomsFilter(current_df, ans) :
           Filtered(result, ans)

PromptFreq ==
    /\ pc = "prompt"
    /\ steps < MaxSteps
    /\ \E ans \in FreqAnswers : Filtered(FreqFilter(current_df, ans), ans)

PromptNone ==
    /\ pc = "prompt"
    /\ steps < MaxSteps
    /\ Filtered(current_df, Answer("n", FALSE, FALSE, <<>>))

\* (faulty variant) the full table is exported
ExportArgFull(cur, full) == full

\* export_results(current_df) at lines 393 and 407: what main hands over
ExportArg(cur, full) == cur

\* choice 'e': prompt_filter returns None and main exports current_df
PromptExport ==
    /\ pc = "prompt"
    /\ exported' = ExportArg(current_df, df)
    /\ pc' = "done"
    /\ UNCHANGED <<pos, modes, rows, df, current_df, prior_df, last_step, steps>>
    /\ UNCHANGED fileVars

\* any other choice: prompt_filter asks again
PromptInvalid ==
    /\ pc = "prompt"
    /\ UNCHANGED vars

\* lines 405-415
ContinueFilter ==
    /\ pc = "continue"
    /\ pc' = "prompt"
    /\ UNCHANGED <<pos, modes, rows, df, current_df, exported, prior_df,
                   last_step, steps>>
    /\ UNCHANGED fileVars

ContinueExport ==
    /\ pc = "continue"
    /\ exported' = ExportArg(current_df, df)
    /\ pc' = "done"
    /\ UNCHANGED <<pos, modes, rows, df, current_df, prior_df, last_step, steps>>
    /\ UNCHANGED fileVars

\* 'q', or an answer that is none of the three
ContinueQuit ==
    /\ pc = "continue"
    /\ pc' = "done"
    /\ UNCHANGED <<pos, modes, rows, df, current_df, exported, prior_df,
                   last_step, steps>>
    /\ UNCHANGED fileVars

\* the reports the loop starts from: three modes, in any order and number
FilterModes ==
    {[Mode |-> 1, Freq |-> 100046, IR |-> 1234,
      Contrib |-> <<Contribution("BOND", "C1 H2", 500)>>],
     [Mode |-> 2, Freq |-> 150004, IR |-> 20006,
      Contrib |-> <<Contribution("Angle", "N3 C4", 300)>>],
     [Mode |-> 3, Freq |-> 205000, IR |-> 0, Contrib |-> <<>>]}

FilterModeLists == SeqsUpTo(FilterModes, MaxRows) \ {<<>>}

\* lines 379-387 of main
InitFilter ==
    /\ modes \in FilterModeLists
    /\ df = CalcCountsAndTop(modes)
    /\ current_df = df
    /\ rows = df
    /\ exported = NoFrame
    /\ prior_df = NoFrame
    /\ last_step = NoStep
    /\ steps = 0
    /\ pc = "prompt"
    /\ pos = 1
    /\ FilesIdle

NextFilter ==
    \/ PromptAtoms
    \/ PromptFreq
    \/ PromptNone
    \/ PromptExport
    \/ PromptInvalid
    \/ ContinueFilter
    \/ ContinueExport
    \/ ContinueQuit

SpecFilter == InitFilter /\ [][NextFilter]_vars

\* the latest answer was a frequency answer of one of the malformed kinds:
\* a bound that is no number, a missing bound, more than one hyphen
MalformedRange(ans) ==
    /\ ans.choice = "f" /\ ~ans.blank /\ ans.hyphen
    /\ \/ Len(ans.parts) > 2
       \/ \E n \in 1..Len(ans.parts) : ans.parts[n] \in {BadNum, BlankPart}

\* the latest answer named groups of atoms, none of them in a row of frame
NoGroupMatches(ans, frame) ==
    /\ ans.choice = "a" /\ ~ans.blank
    /\ \A n \in 1..Len(ans.parts) : \A k \in 1..Len(frame) :
           ~HasGroup(frame[k], ans.parts[n])

\* C9: a filter step that fails without ending the run changes nothing: after
\* a frequency answer that is malformed, and after an atoms answer none of
\* whose groups is in any row, the current set is the set the step was
\* given, and the loop is at its next prompt.
C9_FailedFilterIsNoOp ==
    (pc = "continue" /\ (MalformedRange(last_step)
                            \/ NoGroupMatches(last_step, prior_df)))
        => current_df = prior_df

\* a failed step on a set that is neither the full table nor empty
C9_Witness ==
    /\ pc = "continue"
    /\ steps = 2
    /\ MalformedRange(last_step)
    /\ Len(last_step.parts) = 3
    /\ prior_df # df /\ prior_df # <<>>
    /\ current_df = prior_df

\* a holds rows of b only, as they are in b and in the order of b
IsSubFrame(a, b) ==
    /\ \A k \in 1..Len(a) : \E j \in 1..Len(b) : b[j] = a[k]
    /\ \A k, l \in 1..Len(a) : k < l => a[k].ix < a[l].ix

\* the current set never changes but by a filter step
LoopInvariant ==
    /\ IsSubFrame(current_df, df)
    /\ \A k \in 1..Len(current_df) : current_df[k] = df[current_df[k].ix + 1]
    /\ steps >= 1 => IsSubFrame(current_df, prior_df)
    /\ steps >= 1 => IsSubFrame(prior_df, df)
    /\ exported # NoFrame => (pc = "done" /\ exported = current_df)

\* C11: in the loop of main the current set is at every moment a part of
\* the full table, its rows as the Aggregator made them and in their
\* order, and every filter step gives a part of the set it was given; when
\* export is triggered, by the export answer to prompt_filter or by the
\* export answer after a filter, export_results is handed the current set.
C11_CurrentSetNarrowsAndIsExported ==
    /\ []LoopInvariant
    /\ [][IsSubFrame(current_df', current_df)]_vars
    /\ [][(pc = "prompt" /\ pc' = "done") => exported' = current_df]_vars
    /\ [][(exported = NoFrame /\ exported' # NoFrame)
             => (exported' = current_df /\ current_df' = current_df)]_vars

\* an export, after two steps that each narrowed the set, of what is left
C11_Witness ==
    /\ pc = "done"
    /\ steps = 2
    /\ exported = current_df
    /\ Len(df) = 3 /\ Len(prior_df) = 2 /\ Len(current_df) = 1
    /\ current_df[1].ix = 1

-----------------------------------------------------------------------------
(* The Merger and the Parser: what the history says *)

InRun == pc \in {"loop", "merged", "parsed"}

IsHdr(ln) == ln.kind = "hdr"

\* the record of the mapping with this key
RecOf(key) == CHOOSE r \in {orca_modes[k] : k \in 1..Len(orca_modes)} : r.idx = key

\* the working set when line i was processed
RemainingAt(i) ==
    SelectSeq(orca_modes, LAMBDA r : \A j \in 1..(i - 1) : match_keys[j] # r.idx)

\* the records of the whole mapping within tolerance of line i
NearRecs(i) ==
    {k \in 1..Len(orca_modes) : Within(orca_modes[k].freq, lines[i].freq)}

Rewritten(i) == match_keys[i] # NoKey

\* y is x rounded to two decimals
IsRound2(y, x) == y % 10 = 0 /\ 2 * Abs(y - x) <= 10

\* the number of header lines among the first i
HdrCount(ls, i) == Cardinality({j \in 1..i : IsHdr(ls[j])})

\* C1: in one run every record is consumed at most once: no two rewritten
\* lines took their intensity from the same record, there are never more
\* rewritten lines than records, and of two header lines within tolerance of
\* one record only, the first is rewritten and the second is emitted as it was.
C1_ConsumedAtMostOnce ==
    InRun =>
        /\ \A i, j \in 1..Len(match_keys) :
               (i < j /\ Rewritten(i) /\ Rewritten(j)) => match_keys[i] # match_keys[j]
        /\ replacements_made <= Len(orca_modes)
        /\ replacements_made = Cardinality({i \in 1..Len(match_keys) : Rewritten(i)})
        /\ \A i, j \in 1..Len(match_keys) : \A k \in 1..Len(orca_modes) :
               ( /\ i < j /\ IsHdr(lines[i]) /\ IsHdr(lines[j])
                 /\ NearRecs(i) = {k} /\ NearRecs(j) = {k}
                 /\ \A h \in 1..(i - 1) : IsHdr(lines[h]) => k \notin NearRecs(h) )
               => /\ match_keys[i] = orca_modes[k].idx
                  /\ out[i].ir = Fmt2(orca_modes[k].ir)
                  /\ ~Rewritten(j)
                  /\ out[j] = lines[j]

C1_Witness ==
    /\ pc = "merged"
    /\ Len(lines) = 2
    /\ IsHdr(lines[1]) /\ IsHdr(lines[2])
    /\ \E k \in 1..Len(orca_modes) : NearRecs(1) = {k} /\ NearRecs(2) = {k}
    /\ Rewritten(1) /\ out[2] = lines[2] /\ out[1] # lines[1]

\* C2 as amended: a header line is rewritten from the first record, in the
\* order of the mapping, that is still unconsumed and within 0.05 of the
\* displayed frequency; it is left alone only when there is none.
C2_FirstWithinTolerance ==
    InRun =>
        \A i \in 1..Len(match_keys) :
            IsHdr(lines[i]) =>
                LET rem == RemainingAt(i)
                    hits == {k \in 1..Len(rem) : Within(rem[k].freq, lines[i].freq)}
                IN IF hits = {} THEN ~Rewritten(i)
                   ELSE \E k \in hits :
                            /\ \A h \in hits : k <= h
                            /\ match_keys[i] = rem[k].idx
                            /\ out[i].ir = Fmt2(rem[k].ir)

\* C2 as stated: the record injected is one of the nearest among the
\* unconsumed records within tolerance.
C2_NearestWithinTolerance ==
    InRun =>
        \A i \in 1..Len(match_keys) :
            Rewritten(i) =>
                LET rem == RemainingAt(i)
                IN \A k \in 1..Len(rem) :
                       Within(rem[k].freq, lines[i].freq) =>
                           Abs(RecOf(match_keys[i]).freq - lines[i].freq)
                               <= Abs(rem[k].freq - lines[i].freq)

\* a line was rewritten from a record while a nearer one was unconsumed
C2_Witness ==
    /\ pc = "merged"
    /\ \E i \in 1..Len(match_keys) :
           /\ Rewritten(i)
           /\ \E k \in 1..Len(RemainingAt(i)) :
                  Abs(RemainingAt(i)[k].freq - lines[i].freq)
                      < Abs(RecOf(match_keys[i]).freq - lines[i].freq)

\* C4 as amended: the run warns that nothing was updated exactly when no
\* line was rewritten, and lists the frequencies of the unconsumed records
\* exactly when at least one line was rewritten and records remain.
C4_WarningsExclusive ==
    pc = "merged" =>
        /\ (ZeroWarning \in warnings) <=> (replacements_made = 0)
        /\ (UnmatchedWarning(remaining_orca_modes) \in warnings)
               <=> (replacements_made > 0 /\ Len(remaining_orca_modes) > 0)
        /\ warnings \subseteq {ZeroWarning, UnmatchedWarning(remaining_orca_modes)}

\* C4 as stated: records left over are always listed, and a run without a
\* replacement always warns.
C4_WarningsIndependent ==
    pc = "merged" =>
        /\ (Len(remaining_orca_modes) > 0)
               => (UnmatchedWarning(remaining_orca_modes) \in warnings)
        /\ (replacements_made = 0) => (ZeroWarning \in warnings)

\* a run without a replacement that leaves records: one warning, no list
C4_Witness ==
    /\ pc = "merged"
    /\ replacements_made = 0
    /\ Len(remaining_orca_modes) > 0
    /\ \E i \in 1..Len(lines) : IsHdr(lines[i])
    /\ warnings = {ZeroWarning}

\* C5 as amended: every run with backup enabled writes the backup anew, so
\* the backup holds the content the report had when the latest run began
\* (the content before the first run only until a second run begins).
C5_BackupOfLatestRun ==
    /\ (backup /\ runs >= 1) => fs_backup = prev
    /\ (backup /\ runs = 1) => fs_backup = orig
    /\ (~backup \/ runs = 0) => fs_backup = NoFile
    /\ (pc = "merged" /\ runs >= 1) => fs_report = JoinLines(out)

\* C5 as stated: after any number of runs the backup holds the content the
\* report had before the first run.
C5_BackupOfFirstRun ==
    (backup /\ runs >= 1) => fs_backup = orig

\* a second run has replaced a backup of the original by merged content
C5_Witness ==
    /\ backup /\ runs = 2 /\ pc = "merged"
    /\ fs_backup # orig
    /\ fs_backup = prev

\* C6 as amended: the ModeRecords are the header lines of the file in file
\* order, each with the index written in its header, so two records share
\* an index exactly when two header lines do.
C6_RecordsFollowHeaders ==
    pc = "parsed" =>
        LET hdrs == SelectSeq(fs_report.ls, IsHdr)
        IN /\ Len(modes) = Len(hdrs)
           /\ \A k \in 1..Len(hdrs) :
                  /\ modes[k].Mode = hdrs[k].mode
                  /\ modes[k].Freq = hdrs[k].freq
                  /\ modes[k].IR = hdrs[k].ir

\* C6 as stated: no two ModeRecords of one parse share a mode index.
C6_IndicesUnique ==
    pc = "parsed" =>
        \A j, k \in 1..Len(modes) : j # k => modes[j].Mode # modes[k].Mode

C6_Witness ==
    /\ pc = "parsed"
    /\ Len(modes) = 2
    /\ modes[1].Mode = modes[2].Mode
    /\ modes[1].Freq # modes[2].Freq

\* C8: parsing the merged file gives, for every header line the Merger
\* rewrote, a ModeRecord with the line's mode index, its displayed frequency
\* rounded to two decimals and the matched intensity rounded to two
\* decimals, and for every header line left alone a ModeRecord with the
\* line's own frequency and intensity.
C8_RoundTrip ==
    pc = "parsed" =>
        \A i \in 1..Len(lines) :
            IsHdr(lines[i]) =>
                LET n == HdrCount(lines, i)
                IN /\ n <= Len(modes)
                   /\ modes[n].Mode = lines[i].mode
                   /\ IF Rewritten(i)
                      THEN /\ IsRound2(modes[n].Freq, lines[i].freq)
                           /\ IsRound2(modes[n].IR, RecOf(match_keys[i]).ir)
                      ELSE /\ modes[n].Freq = lines[i].freq
                           /\ modes[n].IR = lines[i].ir

\* a rewritten line whose numbers the rounding changes, beside one left alone
C8_Witness ==
    /\ pc = "parsed"
    /\ \E i, j \in 1..Len(lines) :
           /\ IsHdr(lines[i]) /\ Rewritten(i)
           /\ lines[i].freq % 10 >= 5
           /\ RecOf(match_keys[i]).ir % 10 >= 5
           /\ modes[HdrCount(lines, i)].Freq > lines[i].freq
           /\ IsHdr(lines[j]) /\ ~Rewritten(j)

\* C10 as amended: the lines the Merger writes are as many as the lines it
\* read, in the same order; a line that is no header, and a header line with
\* no unconsumed record within tolerance, is written byte for byte; the file
\* is these lines joined by newlines with no final newline, so read back it
\* has the same lines except for an empty last line, which is gone.
C10_OnlyMatchedHeadersChange ==
    pc = "merged" =>
        /\ Len(out) = Len(lines)
        /\ \A i \in 1..Len(lines) :
               (~IsHdr(lines[i]) \/ FindMatch(RemainingAt(i), lines[i].freq) = 0)
                   => out[i] = lines[i]
        /\ SplitLines(fs_report) =
               IF out # <<>> /\ out[Len(out)] = EmptyLine
               THEN SubSeq(out, 1, Len(out) - 1) ELSE out

\* C10 as stated: the rewritten file has the lines of the input, as many and
\* in the same order, all but the matched header lines byte for byte.
C10_FileKeepsLines ==
    pc = "merged" =>
        /\ Len(SplitLines(fs_report)) = Len(SplitLines(prev))
        /\ \A i \in 1..Len(SplitLines(prev)) :
               (~IsHdr(lines[i]) \/ FindMatch(RemainingAt(i), lines[i].freq) = 0)
                   => SplitLines(fs_report)[i] = SplitLines(prev)[i]

\* a header without a match and a line that is no header, both kept
C10_Witness ==
    /\ pc = "merged"
    /\ Len(lines) = 2
    /\ IsHdr(lines[1]) /\ ~Rewritten(1) /\ lines[1].freq # BadNum
    /\ lines[2] = EmptyLine
    /\ Len(SplitLines(fs_report)) = 1

====
